---- MODULE Spec2Model ----
(***************************************************************************)
(* Lafter video-title pipeline: the title normalizer, the near-duplicate   *)
(* filter of scripts/build_video_titles.py and the inference script        *)
(* scripts/classify_unlabeled_titles.py.                                   *)
(*                                                                         *)
(* A text is a sequence of characters; a character is a one-element        *)
(* string, or a name ("EMOJI", "FW_HASH", ...) for a non-ASCII code point. *)
(***************************************************************************)
EXTENDS Integers, Sequences, FiniteSets, TLC

VARIABLES
    \* normalize_title applied to a title and to its own output
    ntPc, ntText, ntOnce, ntTwice,
    \* levenshtein_distance applied to three texts
    levPc, levA, levB, levC, levAA, levAB, levBA, levBC, levAC,
    \* build_video_titles.main: load_titles, deduplicate_rows, the CSV written
    bvPc, bvSource, bvRaw, bvNTrue, bvRows, bvIdx, bvUnique, bvOut,
    \* one title scored: CSV cell, normalize_title, compute_tfidf, compute_score
    tfPc, tfCell, tfLookup, tfNMin, tfNMax, tfIntercept,
    tfText, tfCounts, tfWeighted, tfNormSq, tfFeatures, tfScore,
    \* load_keyword_rules and the two keyword adjustment functions
    kwPc, kwConfig, kwText, kwRules, kwAdjustment, kwTrainAdjustment,
    \* classify_unlabeled_titles.main: the four input files, main's locals,
    \* the output files and the exception that ended the run
    cuPc, cuCsv, cuModelFile, cuConfigFile, cuKeywordsFile,
    cuTitles, cuModel, cuThreshold, cuRules, cuIdx,
    cuResults, cuPositives, cuNegatives, cuLabelCounts, cuFiles, cuError

ntVars == <<ntPc, ntText, ntOnce, ntTwice>>
levVars == <<levPc, levA, levB, levC, levAA, levAB, levBA, levBC, levAC>>
bvVars == <<bvPc, bvSource, bvRaw, bvNTrue, bvRows, bvIdx, bvUnique, bvOut>>
tfVars == <<tfPc, tfCell, tfLookup, tfNMin, tfNMax, tfIntercept,
            tfText, tfCounts, tfWeighted, tfNormSq, tfFeatures, tfScore>>
kwVars == <<kwPc, kwConfig, kwText, kwRules, kwAdjustment, kwTrainAdjustment>>
cuInputs == <<cuCsv, cuModelFile, cuConfigFile, cuKeywordsFile>>
cuLocals == <<cuTitles, cuModel, cuThreshold, cuRules, cuIdx,
              cuResults, cuPositives, cuNegatives, cuLabelCounts>>
cuVars == <<cuPc, cuInputs, cuLocals, cuFiles, cuError>>
vars == <<ntVars, levVars, bvVars, tfVars, kwVars, cuVars>>

\* The variables an action of one part leaves alone.
otherThanNt == <<levVars, bvVars, tfVars, kwVars, cuVars>>
otherThanLev == <<ntVars, bvVars, tfVars, kwVars, cuVars>>
otherThanBv == <<ntVars, levVars, tfVars, kwVars, cuVars>>
otherThanTf == <<ntVars, levVars, bvVars, kwVars, cuVars>>
otherThanKw == <<ntVars, levVars, bvVars, tfVars, cuVars>>
otherThanCu == <<ntVars, levVars, bvVars, tfVars, kwVars>>

(***************************************************************************)
(* Bounds                                                                  *)
(***************************************************************************)
MaxTitleLen == 4
MaxLevLen == 3
MaxRows == 3
MaxTextLen == 6
MaxNgram == 3
MaxKeywords == 2
MaxKwTextLen == 3
MaxTitles == 2
MaxFeatures == 2

\* No value: Python's None, where a text or a list may stand;
\* NoLabel: a row without the "label" key.
None == <<"None">>
NoLabel == "none"

(***************************************************************************)
(* Character classes                                                       *)
(***************************************************************************)
\* \s of Python's re on str: Unicode whitespace.
SpaceChars == {" ", "TAB", "IDEO_SP"}

\* \d of Python's re on str.
DigitChars == {"0", "1", "2"}

\* TRIM_CHARS: the corner brackets, < and >.
TRIM_CHARS == {"LCORNER", "RCORNER", "<", ">"}

\* EMOJI_PATTERN's class: regional indicators, U+1F300-1FAFF, U+2600-27BF
\* (the stars, hearts and notes of REPEATED_SYMBOL_PATTERN lie in the last).
EmojiChars == {"EMOJI", "STAR", "HEART", "NOTE"}

\* REPEATED_SYMBOL_PATTERN's class.
RepeatChars ==
    {"!", "?", "FW_EXCL", "FW_QUES", "w", "WAVE", "MIDDOT", "ELLIPSIS",
     "JCOMMA", "JPERIOD", "-", "HBAR", "_", "+", "=", "HEART", "STAR", "NOTE"}

IsSpace(c) == c \in SpaceChars
IsDigit(c) == c \in DigitChars

(***************************************************************************)
(* unicodedata.normalize("NFKC", .) and str.lower, character by character  *)
(***************************************************************************)
NFKCChar(c) ==
    CASE c = "FW_HASH" -> <<"#">>
      [] c = "FW_EXCL" -> <<"!">>
      [] c = "FW_QUES" -> <<"?">>
      [] c = "FW_A"    -> <<"A">>
      [] c = "FW_LT"   -> <<"<">>
      [] c = "FW_LBRK" -> <<"[">>
      [] c = "FW_RBRK" -> <<"]">>
      [] c = "IDEO_SP" -> <<" ">>
      [] c = "NUMERO"  -> <<"N", "o">>
      [] c = "ELLIPSIS" -> <<".", ".", ".">>
      [] OTHER -> <<c>>

RECURSIVE NFKC(_)
NFKC(s) == IF s = <<>> THEN <<>> ELSE NFKCChar(Head(s)) \o NFKC(Tail(s))

LowerChar(c) ==
    CASE c = "A" -> "a"
      [] c = "N" -> "n"
      [] c = "O" -> "o"
      [] c = "V" -> "v"
      [] c = "L" -> "l"
      [] c = "W" -> "w"
      [] c = "B" -> "b"
      [] c = "C" -> "c"
      [] OTHER -> c

Lower(s) == [i \in 1..Len(s) |-> LowerChar(s[i])]

(***************************************************************************)
(* Scanning helpers: the first index >= i at which the run ends            *)
(***************************************************************************)
RECURSIVE SkipSpaces(_, _)
SkipSpaces(s, i) ==
    IF i <= Len(s) /\ IsSpace(s[i]) THEN SkipSpaces(s, i + 1) ELSE i

RECURSIVE SkipNonSpaces(_, _)
SkipNonSpaces(s, i) ==
    IF i <= Len(s) /\ ~IsSpace(s[i]) THEN SkipNonSpaces(s, i + 1) ELSE i

RECURSIVE SkipDigits(_, _)
SkipDigits(s, i) ==
    IF i <= Len(s) /\ IsDigit(s[i]) THEN SkipDigits(s, i + 1) ELSE i

RECURSIVE SkipNotClose(_, _)
SkipNotClose(s, i) ==
    IF i <= Len(s) /\ s[i] # "]" THEN SkipNotClose(s, i + 1) ELSE i

RECURSIVE SkipEmoji(_, _)
SkipEmoji(s, i) ==
    IF i <= Len(s) /\ s[i] \in EmojiChars THEN SkipEmoji(s, i + 1) ELSE i

RECURSIVE SkipSame(_, _, _)
SkipSame(s, i, c) ==
    IF i <= Len(s) /\ s[i] = c THEN SkipSame(s, i + 1, c) ELSE i

HasPrefixAt(s, i, p) ==
    /\ i + Len(p) - 1 <= Len(s)
    /\ \A k \in 1..Len(p) : s[i + k - 1] = p[k]

(***************************************************************************)
(* The patterns: XEnd(s, i) is the index after the match that starts at i, *)
(* or 0 when the pattern does not match at i.                              *)
(***************************************************************************)
\* HASHTAG_PATTERN  #\S+
HashtagEnd(s, i) ==
    IF s[i] = "#" /\ i + 1 <= Len(s) /\ ~IsSpace(s[i + 1])
    THEN SkipNonSpaces(s, i + 1)
    ELSE 0

\* EPISODE_PATTERN  (?:vol\.?\s*\d+|no\.?\s*\d+|#\s*\d+)
EpisodeEnd(s, i) ==
    LET afterWord ==
            IF HasPrefixAt(s, i, <<"v", "o", "l">>) THEN i + 3
            ELSE IF HasPrefixAt(s, i, <<"n", "o">>) THEN i + 2
            ELSE 0
        afterDot ==
            IF afterWord = 0 THEN (IF s[i] = "#" THEN i + 1 ELSE 0)
            ELSE IF afterWord <= Len(s) /\ s[afterWord] = "." THEN afterWord + 1
            ELSE afterWord
        afterSp == SkipSpaces(s, afterDot)
    IN  IF afterDot # 0 /\ afterSp <= Len(s) /\ IsDigit(s[afterSp])
        THEN SkipDigits(s, afterSp)
        ELSE 0

\* BRACKET_TAG_PATTERN  \[[^\]]+\]
BracketEnd(s, i) ==
    LET j == SkipNotClose(s, i + 1)
    IN  IF s[i] = "[" /\ j > i + 1 /\ j <= Len(s) THEN j + 1 ELSE 0

(***************************************************************************)
(* pattern.sub(" ", s): leftmost non-overlapping matches, left to right    *)
(***************************************************************************)
RECURSIVE HashtagSub(_, _)
HashtagSub(s, i) ==
    IF i > Len(s) THEN <<>>
    ELSE LET e == HashtagEnd(s, i)
         IN  IF e > 0 THEN <<" ">> \o HashtagSub(s, e)
             ELSE <<s[i]>> \o HashtagSub(s, i + 1)

RECURSIVE EpisodeSub(_, _)
EpisodeSub(s, i) ==
    IF i > Len(s) THEN <<>>
    ELSE LET e == EpisodeEnd(s, i)
         IN  IF e > 0 THEN <<" ">> \o EpisodeSub(s, e)
             ELSE <<s[i]>> \o EpisodeSub(s, i + 1)

RECURSIVE BracketSub(_, _)
BracketSub(s, i) ==
    IF i > Len(s) THEN <<>>
    ELSE LET e == BracketEnd(s, i)
         IN  IF e > 0 THEN <<" ">> \o BracketSub(s, e)
             ELSE <<s[i]>> \o BracketSub(s, i + 1)

\* str.translate(TRIM_CHARS): each of the four characters is deleted.
Translate(s) == SelectSeq(s, LAMBDA c : c \notin TRIM_CHARS)

\* EMOJI_PATTERN.sub(" ", s): a run of emoji becomes one space.
RECURSIVE EmojiSub(_, _)
EmojiSub(s, i) ==
    IF i > Len(s) THEN <<>>
    ELSE IF s[i] \in EmojiChars THEN <<" ">> \o EmojiSub(s, SkipEmoji(s, i))
    ELSE <<s[i]>> \o EmojiSub(s, i + 1)

\* REPEATED_SYMBOL_PATTERN.sub(r"\1", s): a run of one symbol becomes one.
RECURSIVE RepeatedSub(_, _)
RepeatedSub(s, i) ==
    IF i > Len(s) THEN <<>>
    ELSE IF s[i] \in RepeatChars /\ i + 1 <= Len(s) /\ s[i + 1] = s[i]
         THEN <<s[i]>> \o RepeatedSub(s, SkipSame(s, i, s[i]))
    ELSE <<s[i]>> \o RepeatedSub(s, i + 1)

\* re.sub(r"\s+", " ", s)
RECURSIVE WhitespaceSub(_, _)
WhitespaceSub(s, i) ==
    IF i > Len(s) THEN <<>>
    ELSE IF IsSpace(s[i]) THEN <<" ">> \o WhitespaceSub(s, SkipSpaces(s, i))
    ELSE <<s[i]>> \o WhitespaceSub(s, i + 1)

\* str.strip()
Strip(s) ==
    LET first == SkipSpaces(s, 1)
        lasts == {k \in 1..Len(s) : ~IsSpace(s[k])}
    IN  IF lasts = {} THEN <<>>
        ELSE SubSeq(s, first, CHOOSE k \in lasts : \A m \in lasts : m <= k)

\* normalize_title: the nine steps in the order of the source.
normalize_title(text) ==
    LET n1 == Lower(NFKC(text))
        n2 == HashtagSub(n1, 1)
        n3 == EpisodeSub(n2, 1)
        n4 == BracketSub(n3, 1)
        n5 == Translate(n4)
        n6 == EmojiSub(n5, 1)
        n7 == RepeatedSub(n6, 1)
    IN  Strip(WhitespaceSub(n7, 1))

(***************************************************************************)
(* Texts of bounded length                                                 *)
(***************************************************************************)
RECURSIVE SeqsUpTo(_, _)
SeqsUpTo(S, n) ==
    IF n = 0 THEN {<<>>}
    ELSE LET shorter == SeqsUpTo(S, n - 1)
         IN  shorter \cup {Append(t, c) : t \in {u \in shorter : Len(u) = n - 1}, c \in S}

(***************************************************************************)
(* SpecNormalize: normalize_title applied once, then to its own output     *)
(***************************************************************************)
NormAlphabet == {"#", " ", "1", "n", "o", "[", "]", "<", "!", "EMOJI"}

NormInit ==
    /\ ntPc = "start"
    /\ ntText \in SeqsUpTo(NormAlphabet, MaxTitleLen)
    /\ ntOnce = None
    /\ ntTwice = None

NormalizeOnce ==
    /\ ntPc = "start"
    /\ ntOnce' = normalize_title(ntText)
    /\ ntPc' = "once"
    /\ UNCHANGED <<ntText, ntTwice>>
    /\ UNCHANGED otherThanNt

NormalizeTwice ==
    /\ ntPc = "once"
    /\ ntTwice' = normalize_title(ntOnce)
    /\ ntPc' = "twice"
    /\ UNCHANGED <<ntText, ntOnce>>
    /\ UNCHANGED otherThanNt

NormNext == NormalizeOnce \/ NormalizeTwice

NormIdle ==
    /\ ntPc = "idle"
    /\ ntText = <<>>
    /\ ntOnce = None
    /\ ntTwice = None

\* C1: normalize_title is idempotent: normalizing an already normalized
\* title gives the same text.
C1_Idempotent == ntPc = "twice" => ntTwice = ntOnce

\* C12: normalize_title deletes every substring delimited by "[" and "]",
\* whatever lies between them: the normalized title has no "[" that is
\* followed at a later position by a "]".
C12_NoBracketPair ==
    ntPc \in {"once", "twice"} =>
        ~ \E i, j \in 1..Len(ntOnce) :
              i < j /\ ntOnce[i] = "[" /\ ntOnce[j] = "]"

(***************************************************************************)
(* levenshtein_distance: the two-row dynamic programme of the source       *)
(***************************************************************************)
Min3(x, y, z) ==
    IF x <= y /\ x <= z THEN x ELSE IF y <= z THEN y ELSE z

\* The inner loop with a substitution charged even when the characters agree.
RECURSIVE LevRow_AlwaysReplace(_, _, _, _, _)
LevRow_AlwaysReplace(prev, ca, b, j, current) ==
    IF j > Len(b) THEN current
    ELSE LET insert_cost == current[j] + 1
             delete_cost == prev[j + 1] + 1
             replace_cost == prev[j] + 1
         IN  LevRow_AlwaysReplace(prev, ca, b, j + 1,
                    Append(current, Min3(insert_cost, delete_cost, replace_cost)))

\* The inner loop over b for one character ca of a. prev and current are
\* Python lists: Python index k is index k + 1 here.
RECURSIVE LevRow(_, _, _, _, _)
LevRow(prev, ca, b, j, current) ==
    IF j > Len(b) THEN current
    ELSE LET insert_cost == current[j] + 1
             delete_cost == prev[j + 1] + 1
             replace_cost == prev[j] + (IF ca # b[j] THEN 1 ELSE 0)
         IN  LevRow(prev, ca, b, j + 1,
                    Append(current, Min3(insert_cost, delete_cost, replace_cost)))

\* The outer loop over a: current starts as [i], prev_row = current.
RECURSIVE LevRows(_, _, _, _)
LevRows(a, b, i, prev_row) ==
    IF i > Len(a) THEN prev_row
    ELSE LevRows(a, b, i + 1, LevRow(prev_row, a[i], b, 1, <<i>>))

levenshtein_distance(a, b) ==
    IF a = b THEN 0
    ELSE IF a = <<>> THEN Len(b)
    ELSE IF b = <<>> THEN Len(a)
    ELSE LET last == LevRows(a, b, 1, [k \in 1..(Len(b) + 1) |-> k - 1])
         IN  last[Len(last)]

(***************************************************************************)
(* SpecLev: the distance of every pair among three texts                   *)
(***************************************************************************)
LevAlphabet == {"a", "b"}

\* Every text over LevAlphabet up to MaxLevLen, and the two texts the
\* specification names.
LevTexts ==
    SeqsUpTo(LevAlphabet, MaxLevLen) \cup {<<"a", "b", "c">>, <<"a", "b", "d">>}

LevInit ==
    /\ levPc = "start"
    /\ levA \in LevTexts
    /\ levB \in LevTexts
    /\ levC \in LevTexts
    /\ levAA = None /\ levAB = None /\ levBA = None
    /\ levBC = None /\ levAC = None

Measure ==
    /\ levPc = "start"
    /\ levAA' = levenshtein_distance(levA, levA)
    /\ levAB' = levenshtein_distance(levA, levB)
    /\ levBA' = levenshtein_distance(levB, levA)
    /\ levBC' = levenshtein_distance(levB, levC)
    /\ levAC' = levenshtein_distance(levA, levC)
    /\ levPc' = "done"
    /\ UNCHANGED <<levA, levB, levC>>
    /\ UNCHANGED otherThanLev

LevNext == Measure

LevIdle ==
    /\ levPc = "idle"
    /\ levA = <<>> /\ levB = <<>> /\ levC = <<>>
    /\ levAA = None /\ levAB = None /\ levBA = None
    /\ levBC = None /\ levAC = None

\* The unit-cost insert/delete/substitute edit distance, by its textbook
\* recurrence on the first characters.
RECURSIVE EditDistance(_, _)
EditDistance(a, b) ==
    IF a = <<>> THEN Len(b)
    ELSE IF b = <<>> THEN Len(a)
    ELSE Min3(EditDistance(Tail(a), b) + 1,
              EditDistance(a, Tail(b)) + 1,
              EditDistance(Tail(a), Tail(b)) + (IF Head(a) # Head(b) THEN 1 ELSE 0))

\* C8: levenshtein_distance is a metric (zero on equal texts, symmetric,
\* triangle inequality) and equals the unit-cost edit distance, an empty
\* argument included; d("abc", "abd") = 1.
C8_Metric ==
    levPc = "done" =>
        /\ levAA = 0
        /\ levAB = levBA
        /\ levAC <= levAB + levBC
        /\ levAB = EditDistance(levA, levB)
        /\ (levA = <<"a", "b", "c">> /\ levB = <<"a", "b", "d">> => levAB = 1)
        /\ (levA = <<>> => levAB = Len(levB))
        /\ (levB = <<>> => levAB = Len(levA))

C8_Witness ==
    /\ levPc = "done"
    /\ levA = <<"a", "b", "c">>
    /\ levB = <<"a", "b", "d">>
    /\ levC = <<>>
    /\ levAB = 1
    /\ levBC = 3

(***************************************************************************)
(* build_video_titles.py: load_titles, deduplicate_rows, main              *)
(***************************************************************************)
LABEL_TRUE == "1"
LABEL_FALSE == "0"
DEDUP_DISTANCE_THRESHOLD == 2

\* load_titles(path, label, keep_raw_title) on the titles of the file: an
\* item with a falsy title is skipped; a row always carries normalized_title.
bv_load_titles(titles, label, keep_raw_title) ==
    LET kept == SelectSeq(titles, LAMBDA t : t # <<>> /\ t # None)
    IN  [i \in 1..Len(kept) |->
            [title |-> IF keep_raw_title /\ label = NoLabel
                       THEN kept[i] ELSE normalize_title(kept[i]),
             normalized_title |-> normalize_title(kept[i]),
             label |-> label]]

\* row.get("normalized_title") or row["title"]
ComparisonText(row) ==
    IF row.normalized_title # None /\ row.normalized_title # <<>>
    THEN row.normalized_title
    ELSE row.title

\* The comparison with < in place of <=.
IsNearDuplicate_Strict(row, unique) ==
    \E k \in 1..Len(unique) :
        levenshtein_distance(ComparisonText(row), ComparisonText(unique[k]))
            < DEDUP_DISTANCE_THRESHOLD

\* any(levenshtein_distance(title, kept...) <= DEDUP_DISTANCE_THRESHOLD
\*     for kept in unique)
IsNearDuplicate(row, unique) ==
    \E k \in 1..Len(unique) :
        levenshtein_distance(ComparisonText(row), ComparisonText(unique[k]))
            <= DEDUP_DISTANCE_THRESHOLD

\* The raw titles of the status files.
DedupTitles ==
    { <<>>,
      <<"a", "b", "c">>, <<"a", "b", "d">>, <<"x", "y", "z">>,
      <<"a">>, <<"a", "b", "c", "d", "e">>,
      <<"#", "a", "b", "c">>, <<"#", "x", "y", "z">>,
      <<"#", "x", " ", "a", "b", "c">> }

\* One run of deduplicate_rows in main: on true_rows + false_rows
\* ("labeled", the first bvNTrue titles from STATUS_TRUE), or on the rows of
\* STATUS_PENDING ("pending", keep_raw_title=True).
DedupInit ==
    /\ bvPc = "start"
    /\ bvSource \in {"labeled", "pending"}
    /\ bvRaw \in SeqsUpTo(DedupTitles, MaxRows)
    /\ bvNTrue \in 0..Len(bvRaw)
    /\ (bvSource = "pending" => bvNTrue = 0)
    /\ bvRows = <<>>
    /\ bvIdx = 0
    /\ bvUnique = <<>>
    /\ bvOut = None

LoadTitles ==
    /\ bvPc = "start"
    /\ bvRows' =
         IF bvSource = "labeled"
         THEN bv_load_titles(SubSeq(bvRaw, 1, bvNTrue), LABEL_TRUE, FALSE)
              \o bv_load_titles(SubSeq(bvRaw, bvNTrue + 1, Len(bvRaw)), LABEL_FALSE, FALSE)
         ELSE bv_load_titles(bvRaw, NoLabel, TRUE)
    /\ bvUnique' = <<>>
    /\ bvIdx' = 1
    /\ bvPc' = "dedup"
    /\ UNCHANGED <<bvSource, bvRaw, bvNTrue, bvOut>>
    /\ UNCHANGED otherThanBv

\* The row is dropped when it is near any earlier row, accepted or not.
DedupDrop_AnySeen ==
    /\ bvPc = "dedup"
    /\ bvIdx <= Len(bvRows)
    /\ \E k \in 1..(bvIdx - 1) :
           levenshtein_distance(ComparisonText(bvRows[bvIdx]),
                                ComparisonText(bvRows[k]))
               <= DEDUP_DISTANCE_THRESHOLD
    /\ bvIdx' = bvIdx + 1
    /\ UNCHANGED <<bvPc, bvSource, bvRaw, bvNTrue, bvRows, bvUnique, bvOut>>
    /\ UNCHANGED otherThanBv

\* deduplicate_rows, one iteration: the row is a near duplicate, continue.
DedupDrop ==
    /\ bvPc = "dedup"
    /\ bvIdx <= Len(bvRows)
    /\ IsNearDuplicate(bvRows[bvIdx], bvUnique)
    /\ bvIdx' = bvIdx + 1
    /\ UNCHANGED <<bvPc, bvSource, bvRaw, bvNTrue, bvRows, bvUnique, bvOut>>
    /\ UNCHANGED otherThanBv

\* deduplicate_rows, one iteration: unique.append(row).
DedupKeep ==
    /\ bvPc = "dedup"
    /\ bvIdx <= Len(bvRows)
    /\ ~IsNearDuplicate(bvRows[bvIdx], bvUnique)
    /\ bvUnique' = Append(bvUnique, bvRows[bvIdx])
    /\ bvIdx' = bvIdx + 1
    /\ UNCHANGED <<bvPc, bvSource, bvRaw, bvNTrue, bvRows, bvOut>>
    /\ UNCHANGED otherThanBv

\* return unique; write_csv (title, label) or write_unlabeled_csv
\* (title, normalized_title).
WriteCsv ==
    /\ bvPc = "dedup"
    /\ bvIdx > Len(bvRows)
    /\ bvOut' =
         IF bvSource = "labeled"
         THEN [i \in 1..Len(bvUnique) |-> <<bvUnique[i].title, bvUnique[i].label>>]
         ELSE [i \in 1..Len(bvUnique) |->
                  <<bvUnique[i].title, bvUnique[i].normalized_title>>]
    /\ bvPc' = "done"
    /\ UNCHANGED <<bvSource, bvRaw, bvNTrue, bvRows, bvIdx, bvUnique>>
    /\ UNCHANGED otherThanBv

DedupNext == LoadTitles \/ DedupDrop \/ DedupKeep \/ WriteCsv

DedupIdle ==
    /\ bvPc = "idle"
    /\ bvSource = "idle"
    /\ bvRaw = <<>>
    /\ bvNTrue = 0
    /\ bvRows = <<>>
    /\ bvIdx = 0
    /\ bvUnique = <<>>
    /\ bvOut = None

\* The smallest edit distance from a text to the comparison texts of rows.
MinDistance(text, rows) ==
    LET ds == {EditDistance(text, ComparisonText(rows[k])) : k \in 1..Len(rows)}
    IN  CHOOSE d \in ds : \A e \in ds : d <= e

\* The fold the specification describes: a row is dropped exactly when some
\* accepted row lies within the threshold, and appended otherwise.
RECURSIVE FoldAccepted(_)
FoldAccepted(rows) ==
    IF rows = <<>> THEN <<>>
    ELSE LET acc == FoldAccepted(SubSeq(rows, 1, Len(rows) - 1))
             row == rows[Len(rows)]
         IN  IF acc # <<>> /\ MinDistance(ComparisonText(row), acc) <= 2
             THEN acc
             ELSE Append(acc, row)

\* sub is a subsequence of full, in order.
RECURSIVE IsSubsequence(_, _)
IsSubsequence(sub, full) ==
    IF sub = <<>> THEN TRUE
    ELSE IF full = <<>> THEN FALSE
    ELSE IF Head(sub) = Head(full) THEN IsSubsequence(Tail(sub), Tail(full))
    ELSE IsSubsequence(sub, Tail(full))

TextsOf(rows) == [i \in 1..Len(rows) |-> ComparisonText(rows[i])]

\* C2: deduplicate_rows is a left-to-right fold: after any number of rows the
\* accepted list is the fold of the rows seen (a row dropped exactly when its
\* minimum distance to an accepted row is <= 2), a subsequence of the input
\* in first-seen order whose first row is the first input row;
\* ["abc","abd","xyz"] yields ["abc","xyz"].
C2_Fold ==
    bvPc \in {"dedup", "done"} =>
        /\ bvUnique = FoldAccepted(SubSeq(bvRows, 1, bvIdx - 1))
        /\ IsSubsequence(bvUnique, bvRows)
        /\ (bvIdx > 1 => bvUnique # <<>> /\ bvUnique[1] = bvRows[1])
        /\ (bvPc = "done"
              /\ TextsOf(bvRows) = << <<"a", "b", "c">>, <<"a", "b", "d">>, <<"x", "y", "z">> >>
            => TextsOf(bvUnique) = << <<"a", "b", "c">>, <<"x", "y", "z">> >>)

C2_Witness ==
    /\ bvPc = "done"
    /\ TextsOf(bvRows) = << <<"a", "b", "c">>, <<"a", "b", "d">>, <<"x", "y", "z">> >>
    /\ TextsOf(bvUnique) = << <<"a", "b", "c">>, <<"x", "y", "z">> >>
    /\ Len(bvOut) = 2

\* A chain a, b, c: each row within the threshold of its predecessor, c not
\* within the threshold of a.
IsChain(rows) ==
    /\ Len(rows) = 3
    /\ EditDistance(ComparisonText(rows[1]), ComparisonText(rows[2])) <= 2
    /\ EditDistance(ComparisonText(rows[2]), ComparisonText(rows[3])) <= 2
    /\ EditDistance(ComparisonText(rows[1]), ComparisonText(rows[3])) > 2

\* C10 as stated: a chain a, b, c collapses onto a (b and c both dropped).
C10_ChainCollapses ==
    bvPc = "done" /\ IsChain(bvRows) => bvUnique = <<bvRows[1]>>

\* C10 as the code has it: of a chain a, b, c only b is dropped; c, compared
\* with the accepted row a alone, survives.
C10_ChainKeepsLast ==
    bvPc = "done" /\ IsChain(bvRows) => bvUnique = <<bvRows[1], bvRows[3]>>

C10_Witness ==
    /\ bvPc = "done"
    /\ IsChain(bvRows)
    /\ TextsOf(bvRows) = << <<"a">>, <<"a", "b", "c">>, <<"a", "b", "c", "d", "e">> >>
    /\ Len(bvUnique) = 2

\* Every row carries a normalized_title (the empty text included).
AllCarryNormalized(rows) ==
    \A i \in 1..Len(rows) : rows[i].normalized_title # None

\* C11: the comparison text is the normalized text whenever the row carries
\* one, so when every input row carries a normalized_title (possibly empty)
\* no two surviving rows have normalized_title values at edit distance <= 2;
\* in particular two rows with the same normalized_title never both survive.
C11_SurvivorsApart ==
    bvPc \in {"dedup", "done"} /\ AllCarryNormalized(bvRows) =>
        \A i, j \in 1..Len(bvUnique) :
            i < j => EditDistance(bvUnique[i].normalized_title,
                                  bvUnique[j].normalized_title) > 2

(***************************************************************************)
(* classify_unlabeled_titles.py: compute_tfidf and compute_score           *)
(*                                                                         *)
(* idf, coef and intercept are integer-valued floats. A value after the L2 *)
(* normalization is kept exactly, as [num, normsq] for num / sqrt(normsq); *)
(* a score is [base, dot, normsq] for base + dot / sqrt(normsq).           *)
(***************************************************************************)
\* The dict without entries.
EmptyMap == [g \in {} |-> 0]

\* counts[gram] = counts.get(gram, 0.0) + 1.0
Increment(counts, gram) ==
    [g \in DOMAIN counts \cup {gram} |->
        IF g = gram
        THEN (IF gram \in DOMAIN counts THEN counts[gram] ELSE 0) + 1
        ELSE counts[g]]

\* The loop with range(0, len(text) - n): the last window is not read.
RECURSIVE CountWindows_SkipLast(_, _, _, _, _)
CountWindows_SkipLast(text, n, idx, feature_lookup, counts) ==
    IF idx > Len(text) - n THEN counts
    ELSE LET gram == SubSeq(text, idx, idx + n - 1)
         IN  IF gram \notin DOMAIN feature_lookup
             THEN CountWindows_SkipLast(text, n, idx + 1, feature_lookup, counts)
             ELSE CountWindows_SkipLast(text, n, idx + 1, feature_lookup,
                                        Increment(counts, gram))

\* for idx in range(0, len(text) - n + 1): Python index idx is idx + 1 here.
RECURSIVE CountWindows(_, _, _, _, _)
CountWindows(text, n, idx, feature_lookup, counts) ==
    IF idx > Len(text) - n + 1 THEN counts
    ELSE LET gram == SubSeq(text, idx, idx + n - 1)
         IN  IF gram \notin DOMAIN feature_lookup
             THEN CountWindows(text, n, idx + 1, feature_lookup, counts)
             ELSE CountWindows(text, n, idx + 1, feature_lookup,
                               Increment(counts, gram))

\* for n in range(n_min, n_max + 1)
RECURSIVE CountGrams(_, _, _, _, _)
CountGrams(text, n, n_max, feature_lookup, counts) ==
    IF n > n_max THEN counts
    ELSE CountGrams(text, n + 1, n_max, feature_lookup,
                    CountWindows(text, n, 1, feature_lookup, counts))

\* counts = {}; if not text: return counts; the two loops.
RawCounts(text, n_min, n_max, feature_lookup) ==
    IF text = <<>> THEN EmptyMap
    ELSE CountGrams(text, n_min, n_max, feature_lookup, EmptyMap)

\* value = count * idf
WeightByIdf(counts, feature_lookup) ==
    [g \in DOMAIN counts |-> counts[g] * feature_lookup[g].idf]

RECURSIVE SumOver(_, _)
SumOver(f, keys) ==
    IF keys = {} THEN 0
    ELSE LET k == CHOOSE x \in keys : TRUE
         IN  f[k] + SumOver(f, keys \ {k})

\* norm_sq += value * value
NormSq(weighted) ==
    SumOver([g \in DOMAIN weighted |-> weighted[g] * weighted[g]], DOMAIN weighted)

\* if norm_sq == 0.0: return counts; else counts[gram] /= sqrt(norm_sq)
L2Normalize(weighted) ==
    LET norm_sq == NormSq(weighted)
    IN  [g \in DOMAIN weighted |->
            [num |-> weighted[g], normsq |-> IF norm_sq = 0 THEN 1 ELSE norm_sq]]

compute_tfidf(text, n_min, n_max, feature_lookup) ==
    L2Normalize(WeightByIdf(RawCounts(text, n_min, n_max, feature_lookup),
                            feature_lookup))

\* The score started from 0.0 in place of the intercept.
compute_score_NoIntercept(features, feature_lookup, intercept) ==
    LET keys == DOMAIN features
        dots == [g \in keys |-> feature_lookup[g].coef * features[g].num]
    IN  [base |-> 0,
         dot |-> SumOver(dots, keys),
         normsq |-> IF keys = {} THEN 1
                    ELSE features[CHOOSE g \in keys : TRUE].normsq]

\* score = intercept; score += coef * value for every feature
compute_score(features, feature_lookup, intercept) ==
    LET keys == DOMAIN features
        dots == [g \in keys |-> feature_lookup[g].coef * features[g].num]
    IN  [base |-> intercept,
         dot |-> SumOver(dots, keys),
         normsq |-> IF keys = {} THEN 1
                    ELSE features[CHOOSE g \in keys : TRUE].normsq]

\* row["title"] or "": an empty or missing CSV cell is the empty title.
TitleOrEmpty(cell) == IF cell = None \/ cell = <<>> THEN <<>> ELSE cell

(***************************************************************************)
(* SpecTfidf: one title of the inference loop, up to its base score        *)
(***************************************************************************)
TfAlphabet == {"a", "b"}

TfGrams == { <<"b">>, <<"a", "b">>, <<"b", "a", "b">> }

\* What the artifact can say of a gram of its vocabulary.
TfEntries == {[idf |-> 1, coef |-> 2], [idf |-> 2, coef |-> -1]}

\* Every vocabulary within TfGrams, with every choice of entries.
TfLookups == UNION {[G -> TfEntries] : G \in SUBSET TfGrams}

TfInit ==
    /\ tfPc = "start"
    /\ tfCell \in SeqsUpTo(TfAlphabet, MaxTextLen) \cup {None}
    /\ tfLookup \in TfLookups
    /\ tfNMin \in 1..MaxNgram
    /\ tfNMax \in 1..MaxNgram
    /\ tfIntercept \in {-1, 2}
    /\ tfText = None
    /\ tfCounts = None
    /\ tfWeighted = None
    /\ tfNormSq = None
    /\ tfFeatures = None
    /\ tfScore = None

\* load_titles' cell and main's normalized = normalize_title(title)
ReadTitle ==
    /\ tfPc = "start"
    /\ tfText' = normalize_title(TitleOrEmpty(tfCell))
    /\ tfPc' = "normalized"
    /\ UNCHANGED <<tfCell, tfLookup, tfNMin, tfNMax, tfIntercept,
                   tfCounts, tfWeighted, tfNormSq, tfFeatures, tfScore>>
    /\ UNCHANGED otherThanTf

\* compute_tfidf; its locals counts (before and after the idf weighting) and
\* norm_sq are kept beside the map it returns.
ComputeTfidf ==
    /\ tfPc = "normalized"
    /\ tfCounts' = RawCounts(tfText, tfNMin, tfNMax, tfLookup)
    /\ tfWeighted' = WeightByIdf(tfCounts', tfLookup)
    /\ tfNormSq' = NormSq(tfWeighted')
    /\ tfFeatures' = compute_tfidf(tfText, tfNMin, tfNMax, tfLookup)
    /\ tfPc' = "features"
    /\ UNCHANGED <<tfCell, tfLookup, tfNMin, tfNMax, tfIntercept, tfText, tfScore>>
    /\ UNCHANGED otherThanTf

ComputeScore ==
    /\ tfPc = "features"
    /\ tfScore' = compute_score(tfFeatures, tfLookup, tfIntercept)
    /\ tfPc' = "scored"
    /\ UNCHANGED <<tfCell, tfLookup, tfNMin, tfNMax, tfIntercept,
                   tfText, tfCounts, tfWeighted, tfNormSq, tfFeatures>>
    /\ UNCHANGED otherThanTf

TfNext == ReadTitle \/ ComputeTfidf \/ ComputeScore

TfIdle ==
    /\ tfPc = "idle"
    /\ tfCell = None
    /\ tfLookup = EmptyMap
    /\ tfNMin = 0
    /\ tfNMax = 0
    /\ tfIntercept = 0
    /\ tfText = None
    /\ tfCounts = None
    /\ tfWeighted = None
    /\ tfNormSq = None
    /\ tfFeatures = None
    /\ tfScore = None

\* The window positions (n, idx) of text at which gram stands, n in the range.
Occurrences(text, gram, n_min, n_max) ==
    {w \in (n_min..n_max) \X (1..Len(text)) :
        /\ w[2] + w[1] - 1 <= Len(text)
        /\ SubSeq(text, w[2], w[2] + w[1] - 1) = gram}

\* C5: the keys of compute_tfidf's map are exactly the vocabulary grams that
\* stand in some length-n window, n in [ngram_min, ngram_max]; before the L2
\* normalization a key's value is its number of window positions times its
\* idf; vocabulary {"ab"}, range [2,2], text "ababab" counts 3.
C5_Windows ==
    tfPc \in {"features", "scored"} =>
        /\ DOMAIN tfFeatures =
             {g \in DOMAIN tfLookup : Occurrences(tfText, g, tfNMin, tfNMax) # {}}
        /\ DOMAIN tfCounts = DOMAIN tfFeatures
        /\ DOMAIN tfWeighted = DOMAIN tfFeatures
        /\ \A g \in DOMAIN tfFeatures :
             /\ tfCounts[g] = Cardinality(Occurrences(tfText, g, tfNMin, tfNMax))
             /\ tfWeighted[g] = tfCounts[g] * tfLookup[g].idf
             /\ tfFeatures[g].num = tfWeighted[g]
        /\ (/\ tfText = <<"a", "b", "a", "b", "a", "b">>
            /\ DOMAIN tfLookup = {<<"a", "b">>}
            /\ tfNMin = 2 /\ tfNMax = 2
            => tfCounts[<<"a", "b">>] = 3)

C5_Witness ==
    /\ tfPc = "features"
    /\ tfText = <<"a", "b", "a", "b", "a", "b">>
    /\ DOMAIN tfLookup = {<<"a", "b">>}
    /\ tfNMin = 2 /\ tfNMax = 2
    /\ tfCounts[<<"a", "b">>] = 3
    /\ DOMAIN tfFeatures = {<<"a", "b">>}

\* No n-gram of the configured range is in the vocabulary.
OutOfVocabulary(text, n_min, n_max, feature_lookup) ==
    \A g \in DOMAIN feature_lookup : Occurrences(text, g, n_min, n_max) = {}

\* C6: for a text none of whose n-grams is in the vocabulary (the empty text
\* of a missing title included) compute_tfidf returns the empty map, with no
\* division by a zero norm, and compute_score returns exactly the intercept.
C6_OutOfVocabulary ==
    /\ tfPc \in {"features", "scored"}
         /\ OutOfVocabulary(tfText, tfNMin, tfNMax, tfLookup)
       => tfFeatures = EmptyMap /\ tfNormSq = 0
    /\ tfPc = "scored" /\ OutOfVocabulary(tfText, tfNMin, tfNMax, tfLookup)
       => tfScore = [base |-> tfIntercept, dot |-> 0, normsq |-> 1]
    /\ tfPc \in {"features", "scored"} =>
         \A g \in DOMAIN tfFeatures : tfFeatures[g].normsq > 0

C6_Witness ==
    /\ tfPc = "scored"
    /\ tfCell = None
    /\ tfText = <<>>
    /\ tfLookup # EmptyMap
    /\ tfFeatures = EmptyMap
    /\ tfScore.base = tfIntercept

(***************************************************************************)
(* Keyword rules: load_keyword_rules, apply_keyword_adjustment             *)
(* (classify_unlabeled_titles.py) and keyword_adjustment                   *)
(* (train_baseline_classifier.py)                                          *)
(***************************************************************************)
\* A JSON value of a keyword list that is not a string.
JsonNumber == <<"JSON_NUMBER">>

\* A keyword list, or a number, of a key the config file does not have.
NoList == <<None>>
NoNumber == <<>>

\* config.get(key, []) and float(config.get(key, 0.0)); a number of the
\* config is a one-element list.
GetList(value) == IF value = NoList THEN <<>> ELSE value
GetNumber(value) == IF value = NoNumber THEN 0 ELSE value[1]

\* [w.lower() for w in config.get(key, []) if isinstance(w, str)]
LowerKeywords(list) ==
    LET strs == SelectSeq(GetList(list), LAMBDA w : w # JsonNumber)
    IN  [i \in 1..Len(strs) |-> Lower(strs[i])]

load_keyword_rules(config) ==
    [positives |-> LowerKeywords(config.positiveKeywords),
     negatives |-> LowerKeywords(config.negativeKeywords),
     positive_bonus |-> GetNumber(config.positiveKeywordBonus),
     negative_penalty |-> GetNumber(config.negativeKeywordPenalty)]

\* Python's "word in text" on str: the empty word is in every text.
Contains(text, word) ==
    \/ word = <<>>
    \/ \E i \in 1..(Len(text) - Len(word) + 1) :
           SubSeq(text, i, i + Len(word) - 1) = word

\* any(word and word in lower for word in words)
AnyKeyword(words, lower) ==
    \E k \in 1..Len(words) : words[k] # <<>> /\ Contains(lower, words[k])

\* The bonus and the penalty as independent toggles.
apply_keyword_adjustment_Independent(text, rules) ==
    LET lower == Lower(text)
        has_positive == AnyKeyword(rules.positives, lower)
        has_negative == AnyKeyword(rules.negatives, lower)
        afterBonus == IF has_positive THEN 0 + rules.positive_bonus ELSE 0
    IN  IF has_negative THEN afterBonus - rules.negative_penalty ELSE afterBonus

apply_keyword_adjustment(text, rules) ==
    LET lower == Lower(text)
        has_positive == AnyKeyword(rules.positives, lower)
        has_negative == AnyKeyword(rules.negatives, lower)
        afterBonus == IF has_positive /\ ~has_negative
                      THEN 0 + rules.positive_bonus ELSE 0
    IN  IF has_negative THEN afterBonus - rules.negative_penalty ELSE afterBonus

\* train_baseline_classifier.keyword_adjustment: the same rule on the
\* training side.
keyword_adjustment(text, rules) ==
    LET normalized == Lower(text)
        has_positive == AnyKeyword(rules.positives, normalized)
        has_negative == AnyKeyword(rules.negatives, normalized)
        afterBonus == IF has_positive /\ ~has_negative
                      THEN 0 + rules.positive_bonus ELSE 0
    IN  IF has_negative THEN afterBonus - rules.negative_penalty ELSE afterBonus

(***************************************************************************)
(* SpecKeyword: a keyword config is loaded and applied to one text         *)
(***************************************************************************)
KwAlphabet == {"a", "b"}

PositiveChoices == { <<>>, <<"a">>, <<"A", "B">>, JsonNumber }
NegativeChoices == { <<>>, <<"b", "b">>, JsonNumber }

KwConfigs ==
    [positiveKeywords : SeqsUpTo(PositiveChoices, MaxKeywords) \cup {NoList},
     negativeKeywords : SeqsUpTo(NegativeChoices, MaxKeywords) \cup {NoList},
     positiveKeywordBonus : {NoNumber, <<1>>},
     negativeKeywordPenalty : {NoNumber, <<2>>}]

KwInit ==
    /\ kwPc = "start"
    /\ kwConfig \in KwConfigs
    /\ kwText \in SeqsUpTo(KwAlphabet, MaxKwTextLen) \cup {<<"A", "b">>}
    /\ kwRules = None
    /\ kwAdjustment = None
    /\ kwTrainAdjustment = None

LoadKeywordRules ==
    /\ kwPc = "start"
    /\ kwRules' = load_keyword_rules(kwConfig)
    /\ kwPc' = "loaded"
    /\ UNCHANGED <<kwConfig, kwText, kwAdjustment, kwTrainAdjustment>>
    /\ UNCHANGED otherThanKw

ApplyKeywordAdjustment ==
    /\ kwPc = "loaded"
    /\ kwAdjustment' = apply_keyword_adjustment(kwText, kwRules)
    /\ kwTrainAdjustment' = keyword_adjustment(kwText, kwRules)
    /\ kwPc' = "adjusted"
    /\ UNCHANGED <<kwConfig, kwText, kwRules>>
    /\ UNCHANGED otherThanKw

KwNext == LoadKeywordRules \/ ApplyKeywordAdjustment

KwIdle ==
    /\ kwPc = "idle"
    /\ kwConfig = None
    /\ kwText = <<>>
    /\ kwRules = None
    /\ kwAdjustment = None
    /\ kwTrainAdjustment = None

\* The configured bonus and penalty, 0.0 when the key is absent.
ConfiguredBonus == GetNumber(kwConfig.positiveKeywordBonus)
ConfiguredPenalty == GetNumber(kwConfig.negativeKeywordPenalty)

\* Some configured keyword of the list, as configured, is a substring of the
\* lower-cased text.
HasConfigured(list, text) ==
    \E k \in 1..Len(GetList(list)) :
        list[k] # JsonNumber /\ Contains(Lower(text), list[k])

\* Some configured keyword of the list that is a non-empty string is, once
\* lower-cased, a substring of the lower-cased text.
HasNonEmpty(list, text) ==
    \E k \in 1..Len(GetList(list)) :
        /\ list[k] # JsonNumber
        /\ list[k] # <<>>
        /\ Contains(Lower(text), Lower(list[k]))

\* The rule of the claim on hasPositive and hasNegative.
RuleOf(hasPositive, hasNegative) ==
    IF hasNegative THEN 0 - ConfiguredPenalty
    ELSE IF hasPositive THEN ConfiguredBonus
    ELSE 0

\* C7 as stated: with hasPositive / hasNegative = some configured keyword is
\* a substring of the lower-cased text, the adjustment is +bonus when
\* hasPositive and not hasNegative, -penalty whenever hasNegative, else 0.
C7_AnyConfiguredKeyword ==
    kwPc = "adjusted" =>
        LET expected == RuleOf(HasConfigured(kwConfig.positiveKeywords, kwText),
                               HasConfigured(kwConfig.negativeKeywords, kwText))
        IN  kwAdjustment = expected /\ kwTrainAdjustment = expected

\* C7 as the code has it: the same rule, with hasPositive / hasNegative =
\* some configured keyword that is a non-empty string is, lower-cased, a
\* substring of the lower-cased text (an empty keyword never matches).
C7_NonEmptyKeyword ==
    kwPc = "adjusted" =>
        LET expected == RuleOf(HasNonEmpty(kwConfig.positiveKeywords, kwText),
                               HasNonEmpty(kwConfig.negativeKeywords, kwText))
        IN  kwAdjustment = expected /\ kwTrainAdjustment = expected

\* Both a positive and a negative keyword match: the penalty alone applies.
C7_Witness ==
    /\ kwPc = "adjusted"
    /\ kwText = <<"a", "b", "b">>
    /\ kwConfig.positiveKeywords = << <<"a">> >>
    /\ kwConfig.negativeKeywords = << <<"b", "b">> >>
    /\ kwConfig.positiveKeywordBonus = <<1>>
    /\ kwConfig.negativeKeywordPenalty = <<2>>
    /\ kwAdjustment = -2

(***************************************************************************)
(* classify_unlabeled_titles.py: load_titles, load_model, load_threshold,  *)
(* sigmoid and main                                                        *)
(*                                                                         *)
(* A probability and a threshold are counted in units of 10^-7. A call     *)
(* that can raise returns [ok |-> TRUE, value |-> v] or                    *)
(* [ok |-> FALSE, error |-> the exception].                                *)
(***************************************************************************)
Ok(v) == [ok |-> TRUE, value |-> v]
Raise(e) == [ok |-> FALSE, error |-> e]

\* load_titles: the "title" column must exist; row["title"] or "".
cu_load_titles(csv) ==
    IF ~csv.hasTitle THEN Raise("ValueError")
    ELSE Ok([i \in 1..Len(csv.cells) |-> TitleOrEmpty(csv.cells[i])])

\* The entry of one feature: idf[idx], coef[idx]; Python index idx is
\* idx + 1 here.
RECURSIVE BuildLookup(_, _, _)
BuildLookup(vectorizer, classifier, idx) ==
    IF idx = 0 THEN EmptyMap
    ELSE LET before == BuildLookup(vectorizer, classifier, idx - 1)
             feature == vectorizer.feature_names[idx]
         IN  [g \in DOMAIN before \cup {feature} |->
                 IF g = feature
                 THEN [idf |-> vectorizer.idf[idx], coef |-> classifier.coef[idx]]
                 ELSE before[g]]

\* load_model: json.loads, then the dict comprehension over
\* enumerate(feature_names); an index past the end of idf or coef raises
\* IndexError.
load_model(file) ==
    IF ~file.readable THEN Raise("JSONDecodeError")
    ELSE LET vectorizer == file.vectorizer
             classifier == file.classifier
             n == Len(vectorizer.feature_names)
         IN  IF n > Len(vectorizer.idf) \/ n > Len(classifier.coef)
             THEN Raise("IndexError")
             ELSE Ok([feature_lookup |-> BuildLookup(vectorizer, classifier, n),
                      intercept |-> classifier.intercept,
                      ngram_min |-> vectorizer.ngram_range[1],
                      ngram_max |-> vectorizer.ngram_range[2]])

\* One in units of 10^-7.
ProbOne == 10000000

\* The range check with the ends allowed.
ThresholdInRange_Closed(value) == 0 <= value /\ value <= ProbOne

\* not (0.0 < value < 1.0)
ThresholdInRange(value) == 0 < value /\ value < ProbOne

\* The config's threshold: absent (no key, or null), a text float() does not
\* take, or a number.
NoThreshold == [kind |-> "absent", value |-> 0]
TextThreshold == [kind |-> "text", value |-> 0]
NumberThreshold(v) == [kind |-> "number", value |-> v]

\* load_threshold: threshold is None, float(threshold), the range check.
load_threshold(file) ==
    IF ~file.readable THEN Raise("JSONDecodeError")
    ELSE IF file.threshold.kind = "absent" THEN Raise("ValueError")
    ELSE IF file.threshold.kind = "text" THEN Raise("ValueError")
    ELSE IF ~ThresholdInRange(file.threshold.value) THEN Raise("ValueError")
    ELSE Ok(file.threshold.value)

\* load_keyword_rules on the file of main.
cu_load_keyword_rules(file) ==
    IF ~file.readable THEN Raise("JSONDecodeError")
    ELSE Ok(load_keyword_rules(file.config))

\* floor(dot / sqrt(normsq))
FloorRatio(dot, normsq) ==
    IF dot >= 0
    THEN CHOOSE k \in 0..dot :
             /\ k * k * normsq <= dot * dot
             /\ (k + 1) * (k + 1) * normsq > dot * dot
    ELSE 0 - (CHOOSE k \in 0..(0 - dot) :
                  /\ k * k * normsq >= dot * dot
                  /\ (k = 0 \/ (k - 1) * (k - 1) * normsq < dot * dot))

\* math.exp(x) raises OverflowError above this argument.
ExpOverflow == 709

\* 1 / (1 + exp(-k)) in units of 10^-7, at a whole k.
SigmoidTable ==
    [k \in -9..9 |->
        CASE k = -9 -> 1234     [] k = -8 -> 3354     [] k = -7 -> 9111
          [] k = -6 -> 24726    [] k = -5 -> 66929    [] k = -4 -> 179862
          [] k = -3 -> 474259   [] k = -2 -> 1192029  [] k = -1 -> 2689414
          [] k = 0 -> 5000000   [] k = 1 -> 7310586   [] k = 2 -> 8807971
          [] k = 3 -> 9525741   [] k = 4 -> 9820138   [] k = 5 -> 9933071
          [] k = 6 -> 9975274   [] k = 7 -> 9990889   [] k = 8 -> 9996646
          [] k = 9 -> 9998766]

\* sigmoid(base_score + adjustment): the value base + dot / sqrt(normsq) is
\* cut to the whole number below it, and the table is cut at -9 and 9.
sigmoid(score, adjustment) ==
    LET value == score.base + adjustment + FloorRatio(score.dot, score.normsq)
    IN  IF 0 - value > ExpOverflow THEN Raise("OverflowError")
        ELSE IF value < -9 THEN Ok(0)
        ELSE IF value > 9 THEN Ok(ProbOne)
        ELSE Ok(SigmoidTable[value])

\* The label with > in place of >=.
LabelOf_Strict(probability, threshold) == IF probability > threshold THEN "1" ELSE "0"

\* label = "1" if probability >= threshold else "0"
LabelOf(probability, threshold) == IF probability >= threshold THEN "1" ELSE "0"

\* f"{probability:.6f}": rounded to six places, in units of 10^-6.
Format6(probability) == (probability + 5) \div 10

\* row = {"title": ..., "normalized_title": ..., "probability": ...,
\* "label": ...}, when sigmoid returned.
RowOf(title, normalized, probability, threshold) ==
    IF ~probability.ok THEN probability
    ELSE Ok([title |-> title,
             normalized_title |-> normalized,
             probability |-> Format6(probability.value),
             label |-> LabelOf(probability.value, threshold)])

\* tfidf, base_score, adjustment and probability of a normalized title.
ProbabilityOf(normalized, model, keyword_rules) ==
    sigmoid(compute_score(compute_tfidf(normalized, model.ngram_min,
                                        model.ngram_max, model.feature_lookup),
                          model.feature_lookup, model.intercept),
            apply_keyword_adjustment(normalized, keyword_rules))

\* The body of main's loop for one title, up to the row.
ScoreNormalized(title, normalized, model, threshold, keyword_rules) ==
    RowOf(title, normalized, ProbabilityOf(normalized, model, keyword_rules),
          threshold)

ScoreTitle(title, model, threshold, keyword_rules) ==
    ScoreNormalized(title, normalize_title(title), model, threshold, keyword_rules)

(***************************************************************************)
(* Spec: one run of classify_unlabeled_titles.main                         *)
(***************************************************************************)
CuCells == {None, <<"a", "b">>, <<"b">>}

CsvFiles ==
    {[exists |-> FALSE, hasTitle |-> FALSE, cells |-> <<>>],
     [exists |-> TRUE, hasTitle |-> FALSE, cells |-> <<>>]}
    \cup [exists : {TRUE}, hasTitle : {TRUE}, cells : SeqsUpTo(CuCells, MaxTitles)]

NoVectorizer == [feature_names |-> <<>>, idf |-> <<>>, ngram_range |-> <<1, 1>>]
NoClassifier == [coef |-> <<>>, intercept |-> 0]

ModelFiles ==
    {[exists |-> FALSE, readable |-> FALSE,
      vectorizer |-> NoVectorizer, classifier |-> NoClassifier],
     [exists |-> TRUE, readable |-> FALSE,
      vectorizer |-> NoVectorizer, classifier |-> NoClassifier]}
    \cup [exists : {TRUE}, readable : {TRUE},
          vectorizer : [feature_names : SeqsUpTo({<<"a", "b">>, <<"b">>}, MaxFeatures),
                        idf : SeqsUpTo({1}, MaxFeatures),
                        ngram_range : {<<1, 2>>}],
          classifier : [coef : SeqsUpTo({2}, MaxFeatures), intercept : {-1}]]

\* Thresholds 0, 0.5, sigmoid(1) to seven places, 0.731059 and 1.
ThresholdChoices ==
    {NoThreshold, TextThreshold, NumberThreshold(0), NumberThreshold(5000000),
     NumberThreshold(7310586), NumberThreshold(7310590), NumberThreshold(ProbOne)}

ConfigFiles ==
    {[readable |-> FALSE, threshold |-> NoThreshold]}
    \cup [readable : {TRUE}, threshold : ThresholdChoices]

KeywordFiles ==
    {[readable |-> FALSE,
      config |-> [positiveKeywords |-> NoList, negativeKeywords |-> NoList,
                  positiveKeywordBonus |-> NoNumber,
                  negativeKeywordPenalty |-> NoNumber]],
     [readable |-> TRUE,
      config |-> [positiveKeywords |-> << <<"a", "b">> >>, negativeKeywords |-> NoList,
                  positiveKeywordBonus |-> <<1>>,
                  negativeKeywordPenalty |-> NoNumber]],
     [readable |-> TRUE,
      config |-> [positiveKeywords |-> NoList,
                  negativeKeywords |-> << <<"a", "b">> >>,
                  positiveKeywordBonus |-> NoNumber,
                  negativeKeywordPenalty |-> <<1000>>]]}

\* No output file has been opened.
NoFiles == [opened |-> FALSE, all |-> <<>>, positive |-> <<>>, negative |-> <<>>]

\* main's locals before their assignment.
NoModel == [feature_lookup |-> EmptyMap, intercept |-> 0,
            ngram_min |-> 0, ngram_max |-> 0]
NoRules == [positives |-> <<>>, negatives |-> <<>>,
            positive_bonus |-> 0, negative_penalty |-> 0]

CuInit ==
    /\ cuPc = "start"
    /\ cuCsv \in CsvFiles
    /\ cuModelFile \in ModelFiles
    /\ cuConfigFile \in ConfigFiles
    /\ cuKeywordsFile \in KeywordFiles
    /\ cuTitles = NoList
    /\ cuModel = NoModel
    /\ cuThreshold = NoNumber
    /\ cuRules = NoRules
    /\ cuIdx = 0
    /\ cuResults = <<>>
    /\ cuPositives = <<>>
    /\ cuNegatives = <<>>
    /\ cuLabelCounts = [l \in {"0", "1"} |-> 0]
    /\ cuFiles = NoFiles
    /\ cuError = "none"

\* main: the two exists() checks, then titles = load_titles().
CuLoadTitles ==
    /\ cuPc = "start"
    /\ LET r == IF ~cuCsv.exists \/ ~cuModelFile.exists
                THEN Raise("FileNotFoundError")
                ELSE cu_load_titles(cuCsv)
       IN  IF r.ok
           THEN cuTitles' = r.value /\ cuPc' = "titles" /\ UNCHANGED cuError
           ELSE cuError' = r.error /\ cuPc' = "failed" /\ UNCHANGED cuTitles
    /\ UNCHANGED <<cuInputs, cuModel, cuThreshold, cuRules, cuIdx, cuResults,
                   cuPositives, cuNegatives, cuLabelCounts, cuFiles>>
    /\ UNCHANGED otherThanCu

\* model = load_model()
CuLoadModel ==
    /\ cuPc = "titles"
    /\ LET r == load_model(cuModelFile)
       IN  IF r.ok
           THEN cuModel' = r.value /\ cuPc' = "model" /\ UNCHANGED cuError
           ELSE cuError' = r.error /\ cuPc' = "failed" /\ UNCHANGED cuModel
    /\ UNCHANGED <<cuInputs, cuTitles, cuThreshold, cuRules, cuIdx, cuResults,
                   cuPositives, cuNegatives, cuLabelCounts, cuFiles>>
    /\ UNCHANGED otherThanCu

\* threshold = load_threshold()
CuLoadThreshold ==
    /\ cuPc = "model"
    /\ LET r == load_threshold(cuConfigFile)
       IN  IF r.ok
           THEN cuThreshold' = r.value /\ cuPc' = "threshold" /\ UNCHANGED cuError
           ELSE cuError' = r.error /\ cuPc' = "failed" /\ UNCHANGED cuThreshold
    /\ UNCHANGED <<cuInputs, cuTitles, cuModel, cuRules, cuIdx, cuResults,
                   cuPositives, cuNegatives, cuLabelCounts, cuFiles>>
    /\ UNCHANGED otherThanCu

\* keyword_rules = load_keyword_rules(); the lists and label_counts are set
\* up for the loop.
CuLoadKeywordRules ==
    /\ cuPc = "threshold"
    /\ LET r == cu_load_keyword_rules(cuKeywordsFile)
       IN  IF r.ok
           THEN /\ cuRules' = r.value
                /\ cuIdx' = 1
                /\ cuPc' = "loop"
                /\ UNCHANGED cuError
           ELSE /\ cuError' = r.error
                /\ cuPc' = "failed"
                /\ UNCHANGED <<cuRules, cuIdx>>
    /\ UNCHANGED <<cuInputs, cuTitles, cuModel, cuThreshold, cuResults,
                   cuPositives, cuNegatives, cuLabelCounts, cuFiles>>
    /\ UNCHANGED otherThanCu

\* One iteration of "for title in titles"; sigmoid's OverflowError ends the
\* run inside the loop.
CuClassifyTitle ==
    /\ cuPc = "loop"
    /\ cuIdx <= Len(cuTitles)
    /\ \E r \in {ScoreTitle(cuTitles[cuIdx], cuModel, cuThreshold, cuRules)} :
           IF r.ok
           THEN /\ cuLabelCounts' =
                     [cuLabelCounts EXCEPT ![r.value.label] = @ + 1]
                /\ cuResults' = Append(cuResults, r.value)
                /\ cuPositives' = IF r.value.label = "1"
                                  THEN Append(cuPositives, r.value)
                                  ELSE cuPositives
                /\ cuNegatives' = IF r.value.label = "1"
                                  THEN cuNegatives
                                  ELSE Append(cuNegatives, r.value)
                /\ cuIdx' = cuIdx + 1
                /\ UNCHANGED <<cuPc, cuError>>
           ELSE /\ cuError' = r.error
                /\ cuPc' = "failed"
                /\ UNCHANGED <<cuIdx, cuResults, cuPositives, cuNegatives,
                               cuLabelCounts>>
    /\ UNCHANGED <<cuInputs, cuTitles, cuModel, cuThreshold, cuRules, cuFiles>>
    /\ UNCHANGED otherThanCu

\* write_predictions(results, positives, negatives): the three files.
CuWritePredictions ==
    /\ cuPc = "loop"
    /\ cuIdx > Len(cuTitles)
    /\ cuFiles' = [opened |-> TRUE, all |-> cuResults,
                   positive |-> cuPositives, negative |-> cuNegatives]
    /\ cuPc' = "written"
    /\ UNCHANGED <<cuInputs, cuLocals, cuError>>
    /\ UNCHANGED otherThanCu

CuNext ==
    \/ CuLoadTitles
    \/ CuLoadModel
    \/ CuLoadThreshold
    \/ CuLoadKeywordRules
    \/ CuClassifyTitle
    \/ CuWritePredictions

CuIdle ==
    /\ cuPc = "idle"
    /\ cuCsv = [exists |-> FALSE, hasTitle |-> FALSE, cells |-> <<>>]
    /\ cuModelFile = [exists |-> FALSE, readable |-> FALSE,
                      vectorizer |-> NoVectorizer, classifier |-> NoClassifier]
    /\ cuConfigFile = [readable |-> FALSE, threshold |-> NoThreshold]
    /\ cuKeywordsFile =
         [readable |-> FALSE,
          config |-> [positiveKeywords |-> NoList, negativeKeywords |-> NoList,
                      positiveKeywordBonus |-> NoNumber,
                      negativeKeywordPenalty |-> NoNumber]]
    /\ cuTitles = NoList
    /\ cuModel = NoModel
    /\ cuThreshold = NoNumber
    /\ cuRules = NoRules
    /\ cuIdx = 0
    /\ cuResults = <<>>
    /\ cuPositives = <<>>
    /\ cuNegatives = <<>>
    /\ cuLabelCounts = [l \in {"0", "1"} |-> 0]
    /\ cuFiles = NoFiles
    /\ cuError = "none"

\* load_model returned a model.
ModelLoaded == cuModel # NoModel

\* C3: load_model fails whenever feature_names, idf and coef do not all have
\* the same length, feature_names being the longer or the shorter: a model
\* is returned only from arrays of one length.
C3_MismatchFails ==
    ModelLoaded =>
        /\ Len(cuModelFile.vectorizer.feature_names) = Len(cuModelFile.vectorizer.idf)
        /\ Len(cuModelFile.vectorizer.feature_names) = Len(cuModelFile.classifier.coef)

\* The model, the model config with a threshold strictly between 0 and 1,
\* and the keyword config can all be read.
ConfigurationValid ==
    /\ cuModelFile.exists /\ cuModelFile.readable
    /\ cuConfigFile.readable
    /\ cuConfigFile.threshold.kind = "number"
    /\ cuConfigFile.threshold.value > 0
    /\ cuConfigFile.threshold.value < 10000000
    /\ cuKeywordsFile.readable

\* A title has gone through the scoring of the loop.
TitleScored == cuIdx > 1 \/ cuError = "OverflowError"

\* C4: a configuration failure (threshold missing or not strictly between
\* 0 and 1, unreadable model or keyword config) ends the run before a title
\* is scored and before an output file is opened: no prediction row and no
\* output file exists under an invalid configuration.
C4_AbortBeforeInference ==
    TitleScored \/ cuResults # <<>> \/ cuFiles.opened => ConfigurationValid

C4_Witness ==
    /\ cuPc = "failed"
    /\ cuError = "ValueError"
    /\ cuConfigFile.threshold = NumberThreshold(10000000)
    /\ Len(cuTitles) = 2
    /\ ModelLoaded
    /\ cuResults = <<>>
    /\ ~cuFiles.opened

\* C9: after any number of processed titles there is one row per processed
\* title, in input order, its label "1" exactly when the title's
\* probability >= threshold; positives and negatives are the rows of label
\* "1" and of label "0", and the label counts are their lengths; a run that
\* reaches write_predictions has a row for every title.
C9_RowsPartition ==
    cuIdx >= 1 =>
        /\ Len(cuResults) = cuIdx - 1
        /\ (cuPc = "written" => Len(cuResults) = Len(cuTitles))
        /\ \A i \in 1..Len(cuResults) :
             \E p \in {ProbabilityOf(normalize_title(cuTitles[i]), cuModel, cuRules)} :
                /\ p.ok
                /\ cuResults[i].title = cuTitles[i]
                /\ cuResults[i].label \in {"0", "1"}
                /\ cuResults[i].label = "1" <=> p.value >= cuThreshold
        /\ cuPositives = SelectSeq(cuResults, LAMBDA row : row.label = "1")
        /\ cuNegatives = SelectSeq(cuResults, LAMBDA row : row.label = "0")
        /\ Len(cuPositives) + Len(cuNegatives) = Len(cuResults)
        /\ cuLabelCounts["1"] = Len(cuPositives)
        /\ cuLabelCounts["0"] = Len(cuNegatives)

\* Two rows written, the first with a probability equal to the threshold.
C9_Witness ==
    /\ cuPc = "written"
    /\ cuThreshold = 7310586
    /\ Len(cuResults) = 2
    /\ cuResults[1].probability = 731059
    /\ cuResults[1].label = "1"
    /\ cuResults[2].label = "0"
    /\ cuFiles.positive = <<cuResults[1]>>
    /\ cuFiles.negative = <<cuResults[2]>>

(***************************************************************************)
(* Specifications                                                          *)
(***************************************************************************)
InitNormalize == NormInit /\ LevIdle /\ DedupIdle /\ TfIdle /\ KwIdle /\ CuIdle
SpecNormalize == InitNormalize /\ [][NormNext]_vars

InitLev == LevInit /\ NormIdle /\ DedupIdle /\ TfIdle /\ KwIdle /\ CuIdle
SpecLev == InitLev /\ [][LevNext]_vars

InitDedup == DedupInit /\ NormIdle /\ LevIdle /\ TfIdle /\ KwIdle /\ CuIdle
SpecDedup == InitDedup /\ [][DedupNext]_vars

InitTfidf == TfInit /\ NormIdle /\ LevIdle /\ DedupIdle /\ KwIdle /\ CuIdle
SpecTfidf == InitTfidf /\ [][TfNext]_vars

InitKeyword == KwInit /\ NormIdle /\ LevIdle /\ DedupIdle /\ TfIdle /\ CuIdle
SpecKeyword == InitKeyword /\ [][KwNext]_vars

Init == CuInit /\ NormIdle /\ LevIdle /\ DedupIdle /\ TfIdle /\ KwIdle
Next == CuNext
Spec == Init /\ [][Next]_vars

====
